---- MODULE Spec2Model ----
(***************************************************************************)
(* Model of the Nintendo 3DS icon resolvers (src/src/n3ds/                 *)
(* n3ds_structures.rs) and of their dispatch (src/src/main.rs).            *)
(*                                                                         *)
(* The stream is a std::fs::File (main.rs:113).  Its bytes are decided the *)
(* first time they are read and remembered in `log`, so that a second read *)
(* of the same offset returns the same bytes; the end of the file is       *)
(* decided by the first read that runs past it.                            *)
(*                                                                         *)
(* u32/u64/i64 values do not fit TLC's integers: a number is a tuple of    *)
(* five 16-bit limbs, least significant first (80 bits, enough for every   *)
(* intermediate value of the code before it is reduced to its width).      *)
(***************************************************************************)
EXTENDS Integers, Sequences, FiniteSets, TLC

VARIABLES entry, overflow_checks, pc, pos, log, calls, result,
          large_icon_bytes, large_icon_data, pixbuf, loop, pix_pc

vars == <<entry, overflow_checks, pc, pos, log, calls, result,
          large_icon_bytes, large_icon_data, pixbuf, loop, pix_pc>>

parser_vars == <<entry, overflow_checks, pc, pos, log, calls, result>>
pixel_vars == <<large_icon_bytes, large_icon_data, pixbuf, loop, pix_pc>>

----------------------------------------------------------------------------
(* Wide naturals *)

Base == 2^16

Big(n) == <<n % Base, (n \div Base) % Base, 0, 0, 0>>

Zero == Big(0)

RECURSIVE AddLimbs(_, _, _, _)
AddLimbs(a, b, i, carry) ==
    IF i > Len(a) THEN <<>>
    ELSE LET s == a[i] + b[i] + carry
         IN  <<s % Base>> \o AddLimbs(a, b, i + 1, s \div Base)

Add(a, b) == AddLimbs(a, b, 1, 0)

RECURSIVE SubLimbs(_, _, _, _)
SubLimbs(a, b, i, borrow) ==
    IF i > Len(a) THEN <<>>
    ELSE LET d == a[i] - b[i] - borrow
         IN  IF d < 0 THEN <<d + Base>> \o SubLimbs(a, b, i + 1, 1)
             ELSE <<d>> \o SubLimbs(a, b, i + 1, 0)

\* a - b, for a >= b
Sub(a, b) == SubLimbs(a, b, 1, 0)

RECURSIVE MulLimbs(_, _, _, _)
MulLimbs(a, k, i, carry) ==
    IF i > Len(a) THEN <<>>
    ELSE LET s == a[i] * k + carry
         IN  <<s % Base>> \o MulLimbs(a, k, i + 1, s \div Base)

\* a * k, for a small k (k < 2^14)
MulSmall(a, k) == MulLimbs(a, k, 1, 0)

RECURSIVE DivLimbs(_, _, _, _)
DivLimbs(a, k, i, rem) ==
    IF i = 0 THEN <<>>
    ELSE LET cur == rem * Base + a[i]
         IN  DivLimbs(a, k, i - 1, cur % k) \o <<cur \div k>>

\* a / k truncated, for a small k
DivSmall(a, k) == DivLimbs(a, k, Len(a), 0)

RECURSIVE ModLimbs(_, _, _, _)
ModLimbs(a, k, i, rem) ==
    IF i = 0 THEN rem ELSE ModLimbs(a, k, i - 1, (rem * Base + a[i]) % k)

ModSmall(a, k) == ModLimbs(a, k, Len(a), 0)

RECURSIVE LessFrom(_, _, _)
LessFrom(a, b, i) ==
    IF i = 0 THEN FALSE
    ELSE IF a[i] # b[i] THEN a[i] < b[i]
    ELSE LessFrom(a, b, i - 1)

Less(a, b) == LessFrom(a, b, Len(a))
LessEq(a, b) == a = b \/ Less(a, b)

FitsU32(a) == a[3] = 0 /\ a[4] = 0 /\ a[5] = 0
FitsU64(a) == a[5] = 0
FitsI64(a) == a[5] = 0 /\ a[4] < 2^15

WrapU32(a) == <<a[1], a[2], 0, 0, 0>>
WrapU64(a) == <<a[1], a[2], a[3], a[4], 0>>

\* the value of a number known to be below 2^31
Small(a) == a[1] + Base * a[2]

----------------------------------------------------------------------------
(* Integer conversions and checked arithmetic *)

\* u16/u32/u64::from_le_bytes
from_le_bytes(bytes) ==
    [i \in 1..5 |->
        IF 2 * i <= Len(bytes) THEN bytes[2 * i - 1] + 256 * bytes[2 * i]
        ELSE 0]

\* u32/u64::div_ceil
div_ceil(a, k) ==
    LET d == DivSmall(a, k)
        r == ModSmall(a, k)
    IN  IF r > 0 THEN Add(d, Big(1)) ELSE d

----------------------------------------------------------------------------
(* The stream: std::fs::File behind Read + Seek *)

NoResult == [kind |-> "none", payload |-> <<>>]

LogEntry(by, op, at, n, bytes, ok) ==
    [by |-> by, op |-> op, at |-> at, n |-> n, bytes |-> bytes, ok |-> ok]

IsRead(e) == e.op = "read" /\ e.ok

ReadEnd(e) == Add(e.at, Big(e.n))

Later(end, e) == IF IsRead(e) /\ Less(end, ReadEnd(e)) THEN ReadEnd(e) ELSE end

\* one past the last byte any successful read has returned
RECURSIVE MaxReadEnd(_, _)
MaxReadEnd(l, i) ==
    IF i = 0 THEN Zero
    ELSE Later(MaxReadEnd(l, i - 1), l[i])

\* what a call of resolver fn works on: the stream, its local variables (loc),
\* the value it returns (val) and its result; eof is the number of the read
\* (within this call) that runs past the end of the file
IO(fn, eof) ==
    [by |-> fn, pos |-> pos, log |-> log, hi |-> MaxReadEnd(log, Len(log)),
     res |-> NoResult, k |-> 0, eof |-> eof, valid |-> TRUE, loc |-> <<>>,
     val |-> <<>>, next |-> "done"]

Running(io) == io.res.kind = "none"

Fail(io, kind, payload) ==
    IF Running(io) THEN [io EXCEPT !.res = [kind |-> kind, payload |-> payload]]
    ELSE io

\* arithmetic overflow with overflow checks on: the process panics
Panic(io) == Fail(io, "panic", <<>>)

IoError(io, op, at, n) ==
    [io EXCEPT !.res = [kind |-> "io::Error", payload |-> <<>>],
               !.log = Append(@, LogEntry(io.by, op, at, n, <<>>, FALSE))]

\* let name = val;
Let(io, name, val) ==
    IF Running(io) THEN [io EXCEPT !.loc = (name :> val) @@ io.loc] ELSE io

\* let name = uN::from_le_bytes(src);
FromLe(io, name, src) ==
    IF Running(io) THEN Let(io, name, from_le_bytes(io.loc[src])) ELSE io

\* src.div_ceil(k)
DivCeil(io, name, src, k) ==
    IF Running(io) THEN Let(io, name, div_ceil(io.loc[src], k)) ELSE io

\* let name = <arithmetic>; when the exact value does not fit its type the
\* process panics if overflow checks are on, and the value wraps if not
Checked(io, name, fits, wrapped) ==
    IF ~Running(io) THEN io
    ELSE IF ~fits /\ overflow_checks THEN Panic(io)
    ELSE Let(io, name, wrapped)

\* let name = src * k, in u32
MulU32(io, name, src, k) ==
    IF ~Running(io) THEN io
    ELSE Checked(io, name, FitsU32(MulSmall(io.loc[src], k)),
                 WrapU32(MulSmall(io.loc[src], k)))

\* let name = src * k, in u64
MulU64(io, name, src, k) ==
    IF ~Running(io) THEN io
    ELSE Checked(io, name, FitsU64(MulSmall(io.loc[src], k)),
                 WrapU64(MulSmall(io.loc[src], k)))

\* let name = a + b, in u64
AddU64(io, name, a, b) ==
    IF ~Running(io) THEN io
    ELSE Checked(io, name, FitsU64(Add(io.loc[a], io.loc[b])),
                 WrapU64(Add(io.loc[a], io.loc[b])))

\* let name = c + src, in u64
AddConstU64(io, name, c, src) ==
    IF ~Running(io) THEN io
    ELSE Checked(io, name, FitsU64(Add(Big(c), io.loc[src])),
                 WrapU64(Add(Big(c), io.loc[src])))

\* if magic != src { return Err(kind) }
CheckMagic(io, magic, src, kind) ==
    IF Running(io) /\ magic # io.loc[src] THEN Fail(io, kind, <<>>) ELSE io

\* the seek has led to target
Sought(io, target) ==
    [io EXCEPT !.pos = target,
               !.log = Append(@, LogEntry(io.by, "seek", target, 0, <<>>, TRUE))]

\* file_data.seek(SeekFrom::Start(target))?; lseek takes a signed 64-bit
\* offset
SeekStart(io, target) ==
    IF ~Running(io) THEN io
    ELSE IF ~FitsI64(target) THEN IoError(io, "seek", io.pos, 0)
    ELSE Sought(io, target)

\* file_data.seek(SeekFrom::Start(src.into()))?
SeekStartAt(io, src) == IF Running(io) THEN SeekStart(io, io.loc[src]) ELSE io

\* file_data.seek(SeekFrom::Current(plus - minus))?
SeekCurrent(io, plus, minus) ==
    IF ~Running(io) THEN io
    ELSE IF Less(Add(io.pos, plus), minus)
            \/ ~FitsI64(Sub(Add(io.pos, plus), minus))
    THEN IoError(io, "seek", io.pos, 0)
    ELSE Sought(io, Sub(Add(io.pos, plus), minus))

\* file_data.seek(SeekFrom::Current(plus + src as i64 - minus))?
SeekCurrentBy(io, plus, src, minus) ==
    IF Running(io) THEN SeekCurrent(io, Add(Big(plus), io.loc[src]), Big(minus))
    ELSE io

Covers(e, p) ==
    IsRead(e) /\ e.bytes # <<>> /\ LessEq(e.at, p) /\ Less(p, ReadEnd(e))

\* the byte the file holds at offset p: the one an earlier read has returned,
\* a fresh one otherwise
FileByte(l, p, fresh) ==
    IF \E j \in 1..Len(l) : Covers(l[j], p)
    THEN LET j == CHOOSE j \in 1..Len(l) : Covers(l[j], p)
         IN  l[j].bytes[Small(Sub(p, l[j].at)) + 1]
    ELSE fresh

\* the n bytes the file holds at io.pos
FileBytes(io, n, fresh) ==
    IF LessEq(io.hi, io.pos) THEN fresh
    ELSE [i \in 1..n |-> FileByte(io.log, Add(io.pos, Big(i - 1)), fresh[i])]

\* the read of n bytes at the current position ends past the end of the file
PastEnd(io, n) == io.k + 1 = io.eof \/ ~FitsI64(Add(io.pos, Big(n)))

ShortRead(io, n) ==
    [IoError(io, "read", io.pos, n) EXCEPT
        !.k = io.k + 1, !.valid = io.valid /\ Less(io.hi, Add(io.pos, Big(n)))]

\* the stream after n bytes have been read into the local `name`
DoneRead(io, name, n, bytes) ==
    [io EXCEPT !.k = io.k + 1,
               !.pos = Add(io.pos, Big(n)),
               !.hi = IF Less(io.hi, Add(io.pos, Big(n))) THEN Add(io.pos, Big(n))
                      ELSE io.hi,
               !.loc = (name :> bytes) @@ io.loc,
               !.log = Append(@, LogEntry(io.by, "read", io.pos, n, bytes, TRUE))]

\* let mut name = [0u8; n]; file_data.read_exact(&mut name)?; `fresh` are the
\* bytes the file holds there unless an earlier read has fixed them
ReadExact(io, name, n, fresh) ==
    IF ~Running(io) THEN io
    ELSE IF PastEnd(io, n) THEN ShortRead(io, n)
    ELSE DoneRead(io, name, n, FileBytes(io, n, fresh))

\* read_exact into a buffer whose content the resolvers do not inspect
ReadOpaque(io, name, n) ==
    IF ~Running(io) THEN io
    ELSE IF PastEnd(io, n) THEN ShortRead(io, n)
    ELSE DoneRead(io, name, n, <<>>)

\* the call has run to its end: Ok(..)
ReturnOk(io) == Fail(io, "Ok", <<>>)

\* let smdh_icon = SMDHIcon::fn(file_data)?; Ok(smdh_icon): the callee's
\* result is the caller's result
Delegate(io, fn) == IF Running(io) THEN [io EXCEPT !.next = fn] ELSE io

----------------------------------------------------------------------------
(* The resolvers, n3ds_structures.rs *)

SMDH == <<83, 77, 68, 72>>
N3DSX == <<51, 68, 83, 88>>
NCSD == <<78, 67, 83, 68>>
NCCH == <<78, 67, 67, 72>>
ICON == <<105, 99, 111, 110>>

\* from_smdh with the forward seek issued before the signature is compared
from_smdh_seek_first(io0, in) ==
    LET s1 == ReadExact(io0, "smdh_magic", 4, in.magic)
        s2 == SeekCurrent(s1, Big(9408 - 4), Zero)
        s3 == CheckMagic(s2, SMDH, "smdh_magic", "N3DSParsingErrorSMDHMagicNotFound")
        s4 == ReadOpaque(s3, "large_icon_bytes", 4608)
    IN  ReturnOk(s4)

from_smdh(io0, in) ==
    LET s1 == ReadExact(io0, "smdh_magic", 4, in.magic)
        s2 == CheckMagic(s1, SMDH, "smdh_magic", "N3DSParsingErrorSMDHMagicNotFound")
        s3 == SeekCurrent(s2, Big(9408 - 4), Zero)                \* 0x24C0 - 0x04
        s4 == ReadOpaque(s3, "large_icon_bytes", 4608)            \* [0u8; 0x1200]
    IN  ReturnOk(s4)                                \* Ok(SMDHIcon { large_icon })

\* the extended-header test with the boundary value on the wrong side
no_extended_header_off_by_one(header_size) == ~(LessEq(Big(32), header_size))

\* !(header_size > 32)
no_extended_header(header_size) == ~(Less(Big(32), header_size))

\* if !(header_size > 32) { return Err(..NoExtendedHeader { 0: header_size }) }
CheckHeaderSize(io) ==
    IF Running(io) /\ no_extended_header(io.loc.header_size)
    THEN Fail(io, "N3DSParsingError3DSXNoExtendedHeader", io.loc.header_size)
    ELSE io

from_n3dsx(io0, in) ==
    LET s1 == ReadExact(io0, "n3dsx_magic", 4, in.magic)
        s2 == CheckMagic(s1, N3DSX, "n3dsx_magic", "N3DSParsingError3DSXMagicNotFound")
        s3 == ReadExact(s2, "header_size", 2, in.header_size)
        s4 == FromLe(s3, "header_size", "header_size")
        s5 == CheckHeaderSize(s4)
        s6 == SeekStart(s5, Big(32))                              \* 0x20
        s7 == ReadExact(s6, "smdh_offset", 4, in.smdh_offset)
        s8 == FromLe(s7, "smdh_offset", "smdh_offset")
        s9 == ReadExact(s8, "smdh_size", 4, in.smdh_size)
        s10 == FromLe(s9, "_smdh_size", "smdh_size")
        s11 == SeekStartAt(s10, "smdh_offset")
    IN  Delegate(s11, "from_smdh")

\* try_from without the arm for the Dummy size
CIAMetaSize_try_from_no_dummy(value) ==
    IF value = Big(0) THEN [ok |-> TRUE, kind |-> "None"]
    ELSE IF value = Big(8) THEN [ok |-> TRUE, kind |-> "CVerUSA"]
    ELSE IF value = Big(15040) THEN [ok |-> TRUE, kind |-> "Present"]
    ELSE [ok |-> FALSE, kind |-> "Err"]

\* CIAMetaSize::try_from
CIAMetaSize_try_from(value) ==
    IF value = Big(0) THEN [ok |-> TRUE, kind |-> "None"]
    ELSE IF value = Big(8) THEN [ok |-> TRUE, kind |-> "CVerUSA"]
    ELSE IF value = Big(512) THEN [ok |-> TRUE, kind |-> "Dummy"]          \* 0x200
    ELSE IF value = Big(15040) THEN [ok |-> TRUE, kind |-> "Present"]      \* 0x3AC0
    ELSE [ok |-> FALSE, kind |-> "Err"]

\* the outcome of let meta_size = CIAMetaSize::try_from(meta_size)?; and of
\* the match on it, try_from having returned m
MatchMetaSize(io, value, m) ==
    IF ~m.ok THEN Fail(io, "N3DSCIAParsingErrorMetaInvalidSize", value)
    ELSE IF m.kind # "Present"
    THEN Fail(io, "N3DSCIAParsingErrorMetaNotExpectedValue", <<m.kind>>)
    ELSE Let(io, "meta_size", Big(15040))                         \* => 0x3AC0

CheckMetaSize(io) ==
    IF Running(io)
    THEN MatchMetaSize(io, io.loc.meta_size, CIAMetaSize_try_from(io.loc.meta_size))
    ELSE io

\* let name = src.div_ceil(0x40) * 0x40, in u32
WithPaddingU32(io, name, src) == MulU32(DivCeil(io, name, src, 64), name, name, 64)

\* let name = src.div_ceil(0x40) * 0x40, in u64
WithPaddingU64(io, name, src) == MulU64(DivCeil(io, name, src, 64), name, name, 64)

from_cia(io0, in) ==
    LET s1 == SeekStart(io0, Big(8))
        s2 == ReadExact(s1, "certificate_chain_size", 4, in.certificate_chain_size)
        s3 == FromLe(s2, "certificate_chain_size", "certificate_chain_size")
        s4 == ReadExact(s3, "ticket_size", 4, in.ticket_size)
        s5 == FromLe(s4, "ticket_size", "ticket_size")
        s6 == ReadExact(s5, "tmd_size", 4, in.tmd_size)
        s7 == FromLe(s6, "tmd_size", "tmd_size")
        s8 == ReadExact(s7, "meta_size", 4, in.meta_size)
        s9 == FromLe(s8, "meta_size", "meta_size")
        s10 == CheckMetaSize(s9)
        s11 == ReadExact(s10, "content_size", 8, in.content_size)
        s12 == FromLe(s11, "content_size", "content_size")
        s13 == WithPaddingU32(s12, "certificate_chain_size_with_padding",
                              "certificate_chain_size")
        s14 == WithPaddingU32(s13, "ticket_size_with_padding", "ticket_size")
        s15 == WithPaddingU32(s14, "tmd_size_with_padding", "tmd_size")
        s16 == WithPaddingU32(s15, "_meta_size_with_padding", "meta_size")
        s17 == WithPaddingU64(s16, "content_size_with_padding", "content_size")
        s18 == AddU64(s17, "sections_offset", "certificate_chain_size_with_padding",
                      "ticket_size_with_padding")
        s19 == AddU64(s18, "sections_offset", "sections_offset",
                      "tmd_size_with_padding")
        s20 == AddU64(s19, "sections_offset", "sections_offset",
                      "content_size_with_padding")
        s21 == AddConstU64(s20, "seek_to", 8256, "sections_offset")    \* 0x2040 +
        s22 == SeekStartAt(s21, "seek_to")
    IN  Delegate(s22, "from_cia_meta")

from_cia_meta(io0) ==
    Delegate(SeekCurrent(io0, Big(1024), Zero), "from_smdh")      \* 0x400

\* Ok(CCIPartition { offset, _length: length })
OkPartition(io) ==
    IF Running(io)
    THEN [io EXCEPT !.val = [offset |-> io.loc.offset, length |-> io.loc.length]]
    ELSE io

\* CCIPartition::from_data; e holds the 4 + 4 bytes of the table entry
CCIPartition_from_data(io0, e) ==
    LET s1 == ReadExact(io0, "offset", 4, e.offset)
        s2 == FromLe(s1, "offset", "offset")
        s3 == MulU32(s2, "offset", "offset", 512)                 \* * 0x200
        s4 == ReadExact(s3, "length", 4, e.length)
        s5 == FromLe(s4, "length", "length")
        s6 == MulU32(s5, "length", "length", 512)
    IN  OkPartition(s6)

\* collect(): the value a call returned joins those collected before it
Collect(acc, r) == IF Running(r) THEN [r EXCEPT !.val = Append(acc, r.val)] ELSE r

\* (0..8).map(|_| CCIPartition::from_data(file_data)).collect(): entries i..8
RECURSIVE ReadPartitionTable(_, _, _)
ReadPartitionTable(io, table, i) ==
    IF i > 8 \/ ~Running(io) THEN io
    ELSE ReadPartitionTable(Collect(io.val, CCIPartition_from_data(io, table[i])),
                            table, i + 1)

\* let Some(first_partition) = partition_table.first() else { return Err(..) }
FirstPartition(io) ==
    IF ~Running(io) THEN io
    ELSE IF io.val = <<>>
    THEN Fail(io, "N3DSParsingErrorCCIErrorGettingExecutableContentPartition", <<>>)
    ELSE Let(io, "first_partition.offset", io.val[1].offset)

from_cci(io0, in) ==
    LET s1 == SeekStart(io0, Big(256))                            \* 0x100
        s2 == ReadExact(s1, "cci_magic", 4, in.magic)
        s3 == CheckMagic(s2, NCSD, "cci_magic", "N3DSParsingErrorCCIMagicNotFound")
        s4 == SeekStart(s3, Big(288))                             \* 0x120
        s5 == ReadPartitionTable(s4, in.table, 1)
        s6 == FirstPartition(s5)
        s7 == SeekStartAt(s6, "first_partition.offset")
    IN  Delegate(s7, "from_cxi")

\* the flag test accepting any set bit of the byte
is_no_crypto_any_bit(flags) == flags[8] # 0

\* flags[7] & 0x4 == 0x4
is_no_crypto(flags) == (flags[8] \div 4) % 2 = 1

\* if !is_no_crypto { return Err(N3DSParsingErrorCXIFileEncrypted) }
CheckNoCrypto(io) ==
    IF Running(io) /\ ~is_no_crypto(io.loc.flags)
    THEN Fail(io, "N3DSParsingErrorCXIFileEncrypted", <<>>)
    ELSE io

from_cxi(io0, in) ==
    LET s1 == SeekCurrent(io0, Big(256), Zero)                    \* 0x100
        s2 == ReadExact(s1, "cxi_magic", 4, in.magic)
        s3 == CheckMagic(s2, NCCH, "cxi_magic", "N3DSParsingErrorCXIMagicNotFound")
        s4 == SeekCurrent(s3, Big(392 - 260), Zero)               \* 0x188 - 0x104
        s5 == ReadExact(s4, "flags", 8, in.flags)
        s6 == CheckNoCrypto(s5)
        s7 == SeekCurrent(s6, Big(416 - 400), Zero)               \* 0x1A0 - 0x190
        s8 == ReadExact(s7, "exefs_offset", 4, in.exefs_offset)
        s9 == FromLe(s8, "exefs_offset", "exefs_offset")
        s10 == MulU32(s9, "exefs_offset", "exefs_offset", 512)    \* * 0x200
        s11 == ReadExact(s10, "exefs_size", 4, in.exefs_size)
        s12 == FromLe(s11, "exefs_size", "exefs_size")
        s13 == MulU32(s12, "_exefs_size", "exefs_size", 512)
        s14 == SeekCurrentBy(s13, 0, "exefs_offset", 424)         \* as i64 - 0x1A8
    IN  Delegate(s14, "from_exefs")

\* str::from_utf8(&file_header[..0x8]) succeeds: b[i..] is well-formed UTF-8
RECURSIVE Utf8From(_, _)
Utf8From(b, i) ==
    IF i > Len(b) THEN TRUE
    ELSE LET c == b[i]
             Cont(j, lo, hi) == j <= Len(b) /\ b[j] >= lo /\ b[j] <= hi
         IN  IF c < 128 THEN Utf8From(b, i + 1)
             ELSE IF c >= 194 /\ c <= 223
             THEN Cont(i + 1, 128, 191) /\ Utf8From(b, i + 2)
             ELSE IF c = 224
             THEN Cont(i + 1, 160, 191) /\ Cont(i + 2, 128, 191) /\ Utf8From(b, i + 3)
             ELSE IF (c >= 225 /\ c <= 236) \/ c = 238 \/ c = 239
             THEN Cont(i + 1, 128, 191) /\ Cont(i + 2, 128, 191) /\ Utf8From(b, i + 3)
             ELSE IF c = 237
             THEN Cont(i + 1, 128, 159) /\ Cont(i + 2, 128, 191) /\ Utf8From(b, i + 3)
             ELSE IF c = 240
             THEN Cont(i + 1, 144, 191) /\ Cont(i + 2, 128, 191)
                  /\ Cont(i + 3, 128, 191) /\ Utf8From(b, i + 4)
             ELSE IF c >= 241 /\ c <= 243
             THEN Cont(i + 1, 128, 191) /\ Cont(i + 2, 128, 191)
                  /\ Cont(i + 3, 128, 191) /\ Utf8From(b, i + 4)
             ELSE IF c = 244
             THEN Cont(i + 1, 128, 143) /\ Cont(i + 2, 128, 191)
                  /\ Cont(i + 3, 128, 191) /\ Utf8From(b, i + 4)
             ELSE FALSE

from_utf8_ok(b) == Utf8From(b, 1)

RECURSIVE trim_start_matches(_, _)
trim_start_matches(b, c) ==
    IF b # <<>> /\ Head(b) = c THEN trim_start_matches(Tail(b), c) ELSE b

RECURSIVE trim_end_matches(_, _)
trim_end_matches(b, c) ==
    IF b # <<>> /\ b[Len(b)] = c
    THEN trim_end_matches(SubSeq(b, 1, Len(b) - 1), c) ELSE b

\* str::trim_matches: the pattern is removed from both ends
trim_matches(b, c) == trim_end_matches(trim_start_matches(b, c), c)

None == [some |-> FALSE]

\* the header from_data makes of the 16 bytes of a slot that is not empty
ExeFSFileHeader_new(file_header) ==
    [some |-> TRUE,
     file_name |-> trim_matches(SubSeq(file_header, 1, 8), 0),
     file_offset |-> from_le_bytes(SubSeq(file_header, 9, 12)),
     file_size |-> from_le_bytes(SubSeq(file_header, 13, 16))]

\* what from_data does with the 16 bytes it has read: Ok(None) for an empty
\* slot (u128 == 0), the Utf8Error of the name, or Ok(Some(header))
Decode(io, file_header) ==
    IF \A i \in 1..16 : file_header[i] = 0 THEN [io EXCEPT !.val = None]
    ELSE IF ~from_utf8_ok(SubSeq(file_header, 1, 8)) THEN Fail(io, "Utf8Error", <<>>)
    ELSE [io EXCEPT !.val = ExeFSFileHeader_new(file_header)]

DecodeHeader(io) == IF Running(io) THEN Decode(io, io.loc.file_header) ELSE io

\* ExeFSFileHeader::from_data; it returns None or Some(header)
ExeFSFileHeader_from_data(io0, slot) ==
    DecodeHeader(ReadExact(io0, "file_header", 16, slot))

\* collect() and flatten(): Some(header) joins the headers collected before it
CollectSome(acc, r) ==
    IF Running(r) THEN [r EXCEPT !.val = IF r.val.some THEN Append(acc, r.val) ELSE acc]
    ELSE r

\* (0..10).map(|_| ExeFSFileHeader::from_data(file_data)): slots i..10
RECURSIVE ReadFileHeaders(_, _, _)
ReadFileHeaders(io, slots, i) ==
    IF i > 10 \/ ~Running(io) THEN io
    ELSE ReadFileHeaders(CollectSome(io.val, ExeFSFileHeader_from_data(io, slots[i])),
                         slots, i + 1)

\* find returning the last match
FindIcon_last(file_headers) ==
    IF \E i \in 1..Len(file_headers) : file_headers[i].file_name = ICON
    THEN file_headers[CHOOSE i \in 1..Len(file_headers) :
                         /\ file_headers[i].file_name = ICON
                         /\ \A j \in (i + 1)..Len(file_headers) :
                               file_headers[j].file_name # ICON]
    ELSE None

\* file_headers.iter().find(|item| item.file_name() == "icon")
FindIcon(file_headers) ==
    IF \E i \in 1..Len(file_headers) : file_headers[i].file_name = ICON
    THEN file_headers[CHOOSE i \in 1..Len(file_headers) :
                         /\ file_headers[i].file_name = ICON
                         /\ \A j \in 1..(i - 1) : file_headers[j].file_name # ICON]
    ELSE None

\* let Some(icon_file) = found else { return Err(..IconFileNotFound) }
SomeIconFile(io, found) ==
    IF ~found.some THEN Fail(io, "N3DSParsingErrorExeFSIconFileNotFound", <<>>)
    ELSE Let(io, "icon_file.file_offset", found.file_offset)

IconFile(io) == IF Running(io) THEN SomeIconFile(io, FindIcon(io.val)) ELSE io

from_exefs(io0, in) ==
    LET s1 == ReadFileHeaders(io0, in.slots, 1)
        s2 == IconFile(s1)
        s3 == SeekCurrentBy(s2, 512, "icon_file.file_offset", 160)
                                                    \* 0x200 + file_offset - 0xA0
    IN  Delegate(s3, "from_smdh")

----------------------------------------------------------------------------
(* File contents the resolvers are run on *)

\* most non-empty slots of an ExeFS table
MaxFiles == 2

LE32(n) == <<n % 256, (n \div 256) % 256, (n \div 65536) % 256, (n \div 2^24) % 256>>
U32Max == <<255, 255, 255, 255>>

Corrupt(m) == [m EXCEPT ![1] = 0]

Magics == {SMDH, N3DSX, NCSD, NCCH}
MagicInputs == Magics \cup {Corrupt(m) : m \in Magics}
                      \cup {[m EXCEPT ![4] = 0] : m \in Magics}

\* the resolver the caller invoked sees every file of the set; a resolver
\* reached by delegation sees a representative part of it
Direct(fn) == entry = fn

EofChoices(fn, reads) == IF Direct(fn) THEN 0..reads ELSE {0, 1}

SmdhInputs ==
    [magic : IF Direct("from_smdh") THEN MagicInputs ELSE {SMDH, Corrupt(SMDH)}]

N3dsxInputs ==
    [magic : MagicInputs,
     header_size : {<<0, 0>>, <<32, 0>>, <<33, 0>>, <<0, 1>>, <<255, 255>>},
     smdh_offset : {LE32(0), LE32(4), LE32(32), LE32(40), LE32(65536), U32Max},
     smdh_size : {LE32(0), LE32(14016), U32Max}]

CiaInputs ==
    [certificate_chain_size : {LE32(0), LE32(1), LE32(2560),
                               <<192, 255, 255, 255>>, <<193, 255, 255, 255>>},
     ticket_size : {LE32(848), LE32(64), U32Max},
     tmd_size : {LE32(0), LE32(2868), U32Max},
     meta_size : {LE32(0), LE32(8), LE32(512), LE32(15040), LE32(1),
                  LE32(15041), LE32(64), U32Max},
     content_size : {<<0, 0, 0, 0, 0, 0, 0, 0>>, <<65, 0, 0, 0, 0, 0, 0, 0>>,
                     <<0, 0, 0, 0, 1, 0, 0, 0>>,
                     <<0, 0, 0, 0, 0, 0, 0, 128>>,
                     <<192, 255, 255, 255, 255, 255, 255, 255>>,
                     <<193, 255, 255, 255, 255, 255, 255, 255>>,
                     <<255, 255, 255, 255, 255, 255, 255, 255>>}]

PE(o, l) == [offset |-> o, length |-> l]

CCIRestTables ==
    {[j \in 1..7 |-> PE(LE32(0), LE32(0))]}
    \cup {[j \in 1..7 |-> IF j = i THEN PE(LE32(8388608), LE32(0))
                          ELSE PE(LE32(0), LE32(0))] : i \in 1..7}
    \cup {[j \in 1..7 |-> IF j = i THEN PE(LE32(0), U32Max)
                          ELSE PE(LE32(0), LE32(0))] : i \in 1..7}
    \cup {[j \in 1..7 |-> PE(LE32(8388607), LE32(8388607))]}

CCITables ==
    {<<PE(o, l)>> \o rest :
        o \in {LE32(0), LE32(1), LE32(10), LE32(8388607), LE32(8388608), U32Max},
        l \in {LE32(0), LE32(8388608), U32Max},
        rest \in CCIRestTables}

CciInputs == [magic : MagicInputs, table : CCITables]

Flags(first7, last) == [i \in 1..8 |-> IF i = 8 THEN last ELSE first7]

CxiInputs ==
    IF Direct("from_cxi")
    THEN [magic : MagicInputs,
          flags : {Flags(0, 0), Flags(0, 4), Flags(255, 251), Flags(255, 255),
                   Flags(4, 0), Flags(0, 6)},
          exefs_offset : {LE32(0), LE32(1), LE32(2), LE32(8388607),
                          LE32(8388608), U32Max},
          exefs_size : {LE32(0), LE32(1), LE32(8388608)}]
    ELSE [magic : {NCCH, Corrupt(NCCH)},
          flags : {Flags(0, 0), Flags(0, 4)},
          exefs_offset : {LE32(1), LE32(8388608)},
          exefs_size : {LE32(0)}]

Name8(name) == [i \in 1..8 |-> IF i <= Len(name) THEN name[i] ELSE 0]
Slot(name, offset, size) == Name8(name) \o offset \o size

ZeroSlot == [i \in 1..16 |-> 0]

SlotKinds ==
    {Slot(ICON, LE32(100), LE32(14016)),
     Slot(ICON, U32Max, LE32(14016)),
     Slot(<<0>> \o ICON, LE32(512), LE32(14016)),
     Slot(<<108, 111, 103, 111>>, LE32(14336), LE32(8192)),    \* "logo"
     Slot(<<255>> \o ICON, LE32(100), LE32(14016)),            \* not UTF-8
     Slot(<<>>, LE32(256), LE32(0))}

\* the slots of the table that may hold a file
SlotPositions == {1, 2, 3, 9, 10}

ExeFSTables ==
    {[i \in 1..10 |-> IF i \in DOMAIN f THEN f[i] ELSE ZeroSlot] :
        f \in UNION {[P -> SlotKinds] :
                        P \in {Q \in SUBSET SlotPositions : Cardinality(Q) <= MaxFiles}}}

ExefsInputs ==
    [slots : IF Direct("from_exefs") THEN ExeFSTables
             ELSE {[i \in 1..10 |-> ZeroSlot],
                   [i \in 1..10 |-> IF i = 3 THEN Slot(ICON, LE32(100), LE32(14016))
                                    ELSE ZeroSlot]}]

----------------------------------------------------------------------------
(* Calls *)

\* the call of resolver io.by has run to its return or to its delegation
Step(io) ==
    /\ io.valid
    /\ pos' = io.pos
    /\ log' = io.log
    /\ result' = io.res
    /\ pc' = io.next
    /\ calls' = Append(calls, io.by)
    /\ UNCHANGED <<entry, overflow_checks>>
    /\ UNCHANGED pixel_vars

FromSmdh ==
    /\ pc = "from_smdh"
    /\ \E in \in SmdhInputs, eof \in EofChoices("from_smdh", 2) :
          Step(from_smdh(IO("from_smdh", eof), in))

FromN3dsx ==
    /\ pc = "from_n3dsx"
    /\ \E in \in N3dsxInputs, eof \in EofChoices("from_n3dsx", 4) :
          Step(from_n3dsx(IO("from_n3dsx", eof), in))

FromCia ==
    /\ pc = "from_cia"
    /\ \E in \in CiaInputs, eof \in EofChoices("from_cia", 5) :
          Step(from_cia(IO("from_cia", eof), in))

FromCiaMeta ==
    /\ pc = "from_cia_meta"
    /\ Step(from_cia_meta(IO("from_cia_meta", 0)))

FromCci ==
    /\ pc = "from_cci"
    /\ \E in \in CciInputs, eof \in EofChoices("from_cci", 17) :
          Step(from_cci(IO("from_cci", eof), in))

FromCxi ==
    /\ pc = "from_cxi"
    /\ \E in \in CxiInputs, eof \in EofChoices("from_cxi", 4) :
          Step(from_cxi(IO("from_cxi", eof), in))

FromExefs ==
    /\ pc = "from_exefs"
    /\ \E in \in ExefsInputs, eof \in EofChoices("from_exefs", 10) :
          Step(from_exefs(IO("from_exefs", eof), in))

\* the resolvers main dispatches to, and the other public ones
Entries == {"from_cia", "from_smdh", "from_n3dsx", "from_cxi", "from_cci",
            "from_cia_meta", "from_exefs"}

PixelIdle ==
    /\ large_icon_bytes = <<>>
    /\ large_icon_data = <<>>
    /\ pixbuf = <<>>
    /\ loop = <<>>
    /\ pix_pc = "idle"

Init ==
    /\ entry \in Entries
    /\ overflow_checks \in BOOLEAN
    /\ pc = entry
    /\ pos = Zero
    /\ log = <<>>
    /\ calls = <<>>
    /\ result = NoResult
    /\ PixelIdle

Next ==
    \/ FromSmdh
    \/ FromN3dsx
    \/ FromCia
    \/ FromCiaMeta
    \/ FromCci
    \/ FromCxi
    \/ FromExefs

Spec == Init /\ [][Next]_vars

----------------------------------------------------------------------------
(* SMDHIcon::generate_pixbuf_from_bytes, one tile per step *)

tile_order ==
    <<0, 1, 8, 9, 2, 3, 10, 11, 16, 17, 24, 25, 18, 19, 26, 27, 4, 5, 12, 13, 6, 7, 14, 15,
      20, 21, 28, 29, 22, 23, 30, 31, 32, 33, 40, 41, 34, 35, 42, 43, 48, 49, 56, 57, 50, 51,
      58, 59, 36, 37, 44, 45, 38, 39, 46, 47, 52, 53, 60, 61, 54, 55, 62, 63>>

\* u16::from_le_bytes(chunk)
u16_from_le_bytes(lo, hi) == lo + 256 * hi

\* Rgb565::try_from(color): 5 bits red (high), 6 bits green, 5 bits blue (low)
Rgb565_try_from(color) ==
    [r |-> color \div 2048, g |-> (color \div 32) % 64, b |-> color % 32]

\* large_icon_bytes.chunks_exact(2).map(from_le_bytes).map(Rgb565::try_from)
DecodeSamples(bytes) ==
    [i \in 0..((4608 \div 2) - 1) |->
        Rgb565_try_from(u16_from_le_bytes(bytes[2 * i], bytes[2 * i + 1]))]

\* a pixel of Pixbuf::new(Rgb, true, 8, 48, 48) that nothing has written
Unwritten == [rgb |-> [r |-> -1, g |-> -1, b |-> -1], a |-> -1, writes |-> 0]

Pixbuf_new == [c \in (0..47) \X (0..47) |-> Unwritten]

put_pixel(buf, x, y, rgb, a) ==
    [buf EXCEPT ![<<x, y>>] = [rgb |-> rgb, a |-> a, writes |-> @.writes + 1]]

\* the tile indices exchanged
Coords_swapped_tiles(tile_y, tile_x, k) ==
    LET x == tile_order[k + 1] % 8
        y == tile_order[k + 1] \div 8
    IN  <<x + (tile_y * 8), y + (tile_x * 8)>>

\* the pixel the body of the loops writes for tile (tile_x, tile_y), sample k
Coords(tile_y, tile_x, k) ==
    LET x == tile_order[k + 1] % 8                         \* & 0x7
        y == tile_order[k + 1] \div 8                      \* >> 3
    IN  <<x + (tile_x * 8), y + (tile_y * 8)>>

PixStart ==
    /\ pix_pc = "start"
    /\ large_icon_data' = DecodeSamples(large_icon_bytes)
    /\ pixbuf' = Pixbuf_new
    /\ loop' = [tile_y |-> 0, tile_x |-> 0, pos |-> 0]
    /\ pix_pc' = "loop"
    /\ UNCHANGED large_icon_bytes
    /\ UNCHANGED parser_vars

\* the body of `for k`: an index outside large_icon_data or a coordinate
\* outside the pixbuf panics
Body(st, tile_y, tile_x, k) ==
    IF st.panic THEN st
    ELSE IF Coords(tile_y, tile_x, k) \notin DOMAIN st.buf
            \/ st.pos \notin DOMAIN large_icon_data
    THEN [st EXCEPT !.panic = TRUE]
    ELSE [st EXCEPT !.buf = put_pixel(st.buf, Coords(tile_y, tile_x, k)[1],
                                      Coords(tile_y, tile_x, k)[2],
                                      large_icon_data[st.pos], 255),
                    !.pos = st.pos + 1]

\* for k in n..64 { ... }
RECURSIVE ForK(_, _, _, _)
ForK(st, tile_y, tile_x, n) ==
    IF st.panic \/ n = 64 THEN st
    ELSE ForK(Body(st, tile_y, tile_x, n), tile_y, tile_x, n + 1)

\* where the loops stand after ForK has come to st
AfterTile(st) ==
    /\ pixbuf' = st.buf
    /\ loop' = [tile_y |-> IF loop.tile_x + 1 = 6 THEN loop.tile_y + 1 ELSE loop.tile_y,
                tile_x |-> IF loop.tile_x + 1 = 6 THEN 0 ELSE loop.tile_x + 1,
                pos |-> st.pos]
    /\ pix_pc' = IF st.panic THEN "panic"
                 ELSE IF loop.tile_x + 1 = 6 /\ loop.tile_y + 1 = 6 THEN "return"
                 ELSE "loop"

\* for tile_y in 0..6 { for tile_x in 0..6 { for k in 0..64 { ... } } }: one
\* tile per step
PutTile ==
    /\ pix_pc = "loop"
    /\ AfterTile(ForK([buf |-> pixbuf, pos |-> loop.pos, panic |-> FALSE],
                      loop.tile_y, loop.tile_x, 0))
    /\ UNCHANGED <<large_icon_bytes, large_icon_data>>
    /\ UNCHANGED parser_vars

\* Ok(pixbuf)
PixReturn ==
    /\ pix_pc = "return"
    /\ pix_pc' = "done"
    /\ UNCHANGED <<large_icon_bytes, large_icon_data, pixbuf, loop>>
    /\ UNCHANGED parser_vars

CountingBuffer(s) ==
    [j \in 0..4607 |->
        LET v == ((j \div 2) + s) % 65536
        IN  IF j % 2 = 0 THEN v % 256 ELSE v \div 256]

ConstantBuffer(c) ==
    [j \in 0..4607 |-> IF j % 2 = 0 THEN c % 256 ELSE c \div 256]

IconBuffers == {CountingBuffer(0), CountingBuffer(64000), CountingBuffer(31),
                ConstantBuffer(65535), ConstantBuffer(0)}

PixInit ==
    /\ entry = "generate_pixbuf_from_bytes"
    /\ overflow_checks \in BOOLEAN
    /\ pc = "done"
    /\ pos = Zero
    /\ log = <<>>
    /\ calls = <<>>
    /\ result = NoResult
    /\ large_icon_bytes \in IconBuffers
    /\ large_icon_data = <<>>
    /\ pixbuf = <<>>
    /\ loop = <<>>
    /\ pix_pc = "start"

PixNext == PixStart \/ PutTile \/ PixReturn

PixSpec == PixInit /\ [][PixNext]_vars

----------------------------------------------------------------------------
(* What the properties below talk about *)

\* the read_exact calls resolver fn has made, in order, failed ones included
ReadsOf(fn) == SelectSeq(log, LAMBDA e : e.by = fn /\ e.op = "read")

\* the seeks resolver fn has made, in order
SeeksOf(fn) == SelectSeq(log, LAMBDA e : e.by = fn /\ e.op = "seek")

Called(fn) == \E i \in 1..Len(calls) : calls[i] = fn

\* resolver fn is about to run, or has run, with the stream at offset p:
\* everything it reads first is read at p
EntersAt(fn, p) ==
    \/ pc = fn /\ pos = p
    \/ /\ Called(fn)
       /\ \E i \in 1..Len(log) :
             /\ log[i].by = fn
             /\ \A j \in 1..(i - 1) : log[j].by # fn
             /\ IF log[i].op = "read" THEN log[i].at = p
                ELSE i > 1 /\ log[i - 1].op = "seek" /\ log[i - 1].ok /\ log[i - 1].at = p

LastOp == log[Len(log)]

\* resolver fn has aborted on an arithmetic overflow
Aborted(fn) == result.kind = "panic" /\ calls[Len(calls)] = fn

U32Value(b) == <<b[1] + 256 * b[2], b[3] + 256 * b[4], 0, 0, 0>>

ExpectedMagic(fn) ==
    CASE fn = "from_smdh" -> <<83, 77, 68, 72>>
      [] fn = "from_n3dsx" -> <<51, 68, 83, 88>>
      [] fn = "from_cci" -> <<78, 67, 83, 68>>
      [] fn = "from_cxi" -> <<78, 67, 67, 72>>

MagicError(fn) ==
    CASE fn = "from_smdh" -> "N3DSParsingErrorSMDHMagicNotFound"
      [] fn = "from_n3dsx" -> "N3DSParsingError3DSXMagicNotFound"
      [] fn = "from_cci" -> "N3DSParsingErrorCCIMagicNotFound"
      [] fn = "from_cxi" -> "N3DSParsingErrorCXIMagicNotFound"

----------------------------------------------------------------------------
\* C1: when the 4 signature bytes a resolver (from_smdh, from_n3dsx, from_cci,
\* from_cxi) has read differ from its signature, the call chain ends with the
\* magic-not-found error of that resolver, the signature read is the last
\* operation on the stream and the stream is 4 bytes past the signature start.
C1_MagicMismatch ==
    \A fn \in {"from_smdh", "from_n3dsx", "from_cci", "from_cxi"} :
        LET r == ReadsOf(fn)
        IN  (Len(r) >= 1 /\ r[1].ok /\ r[1].bytes # ExpectedMagic(fn))
            => /\ result.kind = MagicError(fn)
               /\ pc = "done"
               /\ LastOp = r[1]
               /\ pos = Add(r[1].at, Big(4))

\* from_cxi, reached from from_cci, has read a corrupted signature
C1_Witness ==
    /\ calls = <<"from_cci", "from_cxi">>
    /\ LastOp.bytes = <<0, 67, 67, 72>>
    /\ result.kind = "N3DSParsingErrorCXIMagicNotFound"

\* a standalone icon-metadata file with a corrupted signature
C1_WitnessSmdh ==
    /\ calls = <<"from_smdh">>
    /\ LastOp.bytes = <<0, 77, 68, 72>>
    /\ result.kind = "N3DSParsingErrorSMDHMagicNotFound"

\* C2: in from_cia, a trailing-metadata size of 0x3AC0 is the only one after
\* which the content size is read; 0, 8 and 0x200 fail with the "meta not
\* expected value" error carrying None, CVerUSA and Dummy; any other value
\* fails with the "invalid size" error carrying the value; after either
\* failure nothing more is read and no other resolver is called.
C2_MetaSize ==
    LET r == ReadsOf("from_cia")
    IN  (Len(r) >= 4 /\ r[4].ok)
        => LET b == r[4].bytes
               Kind(k) == /\ result.kind = "N3DSCIAParsingErrorMetaNotExpectedValue"
                          /\ result.payload = <<k>>
               stopped == /\ Len(r) = 4
                          /\ LastOp = r[4]
                          /\ pc = "done"
                          /\ calls = <<"from_cia">>
           IN  /\ r[4].at = Big(20)
               /\ b = <<192, 58, 0, 0>>
                    => /\ Len(r) = 5
                       /\ r[5].at = Big(24)
                       /\ result.kind \notin
                              {"N3DSCIAParsingErrorMetaNotExpectedValue",
                               "N3DSCIAParsingErrorMetaInvalidSize"}
               /\ b = <<0, 0, 0, 0>> => Kind("None") /\ stopped
               /\ b = <<8, 0, 0, 0>> => Kind("CVerUSA") /\ stopped
               /\ b = <<0, 2, 0, 0>> => Kind("Dummy") /\ stopped
               /\ b \notin {<<192, 58, 0, 0>>, <<0, 0, 0, 0>>, <<8, 0, 0, 0>>,
                            <<0, 2, 0, 0>>}
                    => /\ result.kind = "N3DSCIAParsingErrorMetaInvalidSize"
                       /\ result.payload = U32Value(b)
                       /\ stopped

\* the trailing-metadata size is 0x200
C2_Witness ==
    /\ calls = <<"from_cia">>
    /\ Len(ReadsOf("from_cia")) = 4
    /\ LastOp.ok /\ LastOp.bytes = <<0, 2, 0, 0>>
    /\ result.kind = "N3DSCIAParsingErrorMetaNotExpectedValue"

\* C6: in from_cxi with a valid NCCH signature, the call fails with the "file
\* encrypted" error exactly when bit 0x4 of flags byte 7 is clear, whatever
\* the other flag bits are; after that failure the filesystem offset and size
\* are not read and no other resolver is called; with the bit set the parse
\* goes on to read the filesystem offset.
C6_Encrypted ==
    LET r == ReadsOf("from_cxi")
    IN  (Len(r) >= 2 /\ r[1].ok /\ r[1].bytes = <<78, 67, 67, 72>> /\ r[2].ok)
        => LET bit == (r[2].bytes[8] \div 4) % 2 = 1
           IN  /\ ~bit => /\ result.kind = "N3DSParsingErrorCXIFileEncrypted"
                          /\ Len(r) = 2
                          /\ LastOp = r[2]
                          /\ pc = "done"
                          /\ ~Called("from_exefs") /\ ~Called("from_smdh")
               /\ bit => /\ result.kind # "N3DSParsingErrorCXIFileEncrypted"
                         /\ Len(r) >= 3
                         /\ r[3].at = Add(r[2].at, Big(24))

\* every flag bit but the no-encryption bit is set
C6_Witness ==
    /\ Called("from_cxi")
    /\ LastOp.by = "from_cxi"
    /\ LastOp.bytes = <<255, 255, 255, 255, 255, 255, 255, 251>>
    /\ result.kind = "N3DSParsingErrorCXIFileEncrypted"

\* only the no-encryption bit is set and the parse has gone on
C6_WitnessClear ==
    /\ Len(ReadsOf("from_cxi")) = 4
    /\ ReadsOf("from_cxi")[2].bytes = <<0, 0, 0, 0, 0, 0, 0, 4>>
    /\ pc = "from_exefs"

\* C9: in from_n3dsx with a valid 3DSX signature, a header size h <= 32 fails
\* with the "no extended header" error carrying h, without any seek or further
\* read; with h > 32 the offset is read at 0x20 and the size at 0x24, and
\* from_smdh then reads the signature at the offset the offset field holds.
C9_HeaderSize ==
    LET r == ReadsOf("from_n3dsx")
    IN  (Len(r) >= 2 /\ r[1].ok /\ r[1].bytes = <<51, 68, 83, 88>> /\ r[2].ok)
        => LET h == r[2].bytes[1] + 256 * r[2].bytes[2]
           IN  /\ h <= 32 => /\ result.kind = "N3DSParsingError3DSXNoExtendedHeader"
                             /\ result.payload = <<h, 0, 0, 0, 0>>
                             /\ LastOp = r[2]
                             /\ SeeksOf("from_n3dsx") = <<>>
                             /\ pc = "done"
               /\ h > 32 => /\ result.kind # "N3DSParsingError3DSXNoExtendedHeader"
                            /\ Len(r) >= 3
                            /\ r[3].at = Big(32)
                            /\ r[3].ok => Len(r) = 4 /\ r[4].at = Big(36)
                            /\ (r[3].ok /\ r[4].ok)
                                  => EntersAt("from_smdh", U32Value(r[3].bytes))

\* header size 33: the signature of the icon metadata is read at the offset
C9_Witness ==
    /\ calls = <<"from_n3dsx", "from_smdh">>
    /\ ReadsOf("from_n3dsx")[2].bytes = <<33, 0>>
    /\ ReadsOf("from_n3dsx")[4].bytes = <<255, 255, 255, 255>>
    /\ ReadsOf("from_smdh")[1].at = Big(65536)
    /\ ReadsOf("from_smdh")[1].ok

\* header size 32
C9_WitnessNoHeader ==
    /\ calls = <<"from_n3dsx">>
    /\ result.kind = "N3DSParsingError3DSXNoExtendedHeader"
    /\ result.payload = Big(32)

\* C3 (as stated): in from_cia with metadata size 0x3AC0, whatever the
\* certificate-chain, ticket, content-metadata and content sizes are, each is
\* rounded up to the next multiple of 64 without wrap-around or abort, the
\* stream is sought to 0x2040 + the sum of the four padded sizes, and the SMDH
\* signature is read at that offset + 0x400.
C3_PaddedOffset ==
    LET r == ReadsOf("from_cia")
    IN  (Len(r) = 5 /\ (\A i \in 1..5 : r[i].ok) /\ r[4].bytes = <<192, 58, 0, 0>>)
        => LET RoundUp(x) == MulSmall(DivSmall(Add(x, Big(63)), 64), 64)
               content == [i \in 1..5 |->
                              IF i = 5 THEN 0
                              ELSE r[5].bytes[2 * i - 1] + 256 * r[5].bytes[2 * i]]
               target == Add(Add(Big(8256), RoundUp(U32Value(r[1].bytes))),
                             Add(Add(RoundUp(U32Value(r[2].bytes)),
                                     RoundUp(U32Value(r[3].bytes))),
                                 RoundUp(content)))
           IN  /\ ~Aborted("from_cia")
               /\ SeeksOf("from_cia") # <<>>
               /\ LET seek == SeeksOf("from_cia")[Len(SeeksOf("from_cia"))]
                  IN  seek.ok /\ seek.at = target
               /\ pc = "from_cia_meta" => pos = target
               /\ pc # "from_cia_meta" => EntersAt("from_smdh", Add(target, Big(1024)))

\* C4 (as stated): in from_cci with a valid NCSD signature and the whole
\* partition table in the file, whatever the stored offsets and lengths are, no
\* scaling by 512 wraps or aborts: the stream is sought to (first stored
\* offset) * 512 and from_cxi reads the NCCH signature 0x100 further.
C4_PartitionOffset ==
    LET r == ReadsOf("from_cci")
    IN  (Len(r) >= 1 /\ r[1].bytes = <<78, 67, 83, 68>>
         /\ \A i \in 1..Len(r) : r[i].ok)
        => /\ ~Aborted("from_cci")
           /\ Len(r) = 17
           /\ r[2].at = Big(288)
           /\ LET B == MulSmall(U32Value(r[2].bytes), 512)
                  c == ReadsOf("from_cxi")
              IN  /\ EntersAt("from_cxi", B)
                  /\ Len(c) >= 1 => c[1].at = Add(B, Big(256))

\* C5 (as stated): in from_cxi entered at B with a valid NCCH signature and the
\* no-encryption bit set, the flags are read at B + 0x188, the filesystem
\* offset and size at B + 0x1A0, and for every stored filesystem offset f the
\* first directory slot is read by from_exefs at B + f * 512.
C5_ExefsOffset ==
    LET r == ReadsOf("from_cxi")
    IN  (Len(r) >= 2 /\ r[1].ok /\ r[1].bytes = <<78, 67, 67, 72>> /\ r[2].ok
         /\ (r[2].bytes[8] \div 4) % 2 = 1)
        => LET B == Sub(r[1].at, Big(256))
           IN  /\ r[2].at = Add(B, Big(392))
               /\ Len(r) >= 3
               /\ r[3].at = Add(B, Big(416))
               /\ r[3].ok => /\ ~Aborted("from_cxi")
                             /\ Len(r) = 4
                             /\ r[4].at = Add(B, Big(420))
                             /\ r[4].ok => EntersAt("from_exefs",
                                               Add(B, MulSmall(U32Value(r[3].bytes), 512)))

\* the 16 bytes of a directory slot: name as from_data decodes it, and offset
SlotIsZero(slot) == \A i \in 1..16 : slot[i] = 0
DecodedName(slot) == trim_matches(SubSeq(slot, 1, 8), 0)
SlotOffset(slot) == U32Value(SubSeq(slot, 9, 12))

\* from_exefs has read a whole table whose names are valid text
TableRead ==
    LET r == ReadsOf("from_exefs")
    IN  /\ Len(r) = 10
        /\ \A i \in 1..10 : r[i].ok /\ from_utf8_ok(SubSeq(r[i].bytes, 1, 8))

\* C7: in from_exefs entered at E, for a table of 10 slots with valid-text
\* names, zero slots are passed over; when some non-zero slot decodes to the
\* name "icon", from_smdh reads the signature at E + 0x200 + the offset of the
\* lowest-indexed such slot; when none does, the call fails with the "icon
\* file not found" error and from_smdh is not called.
C7_IconEntry ==
    TableRead
    => LET r == ReadsOf("from_exefs")
           E == r[1].at
           icons == {i \in 1..10 : /\ ~SlotIsZero(r[i].bytes)
                                   /\ DecodedName(r[i].bytes) = <<105, 99, 111, 110>>}
       IN  /\ \A i \in 1..10 : r[i].at = Add(E, Big(16 * (i - 1)))
           /\ icons = {}
                => /\ result.kind = "N3DSParsingErrorExeFSIconFileNotFound"
                   /\ pc = "done"
                   /\ LastOp = r[10]
                   /\ ~Called("from_smdh")
           /\ icons # {}
                => LET first == CHOOSE i \in icons : \A j \in icons : i <= j
                   IN  /\ result.kind # "N3DSParsingErrorExeFSIconFileNotFound"
                       /\ EntersAt("from_smdh",
                                   Add(Add(E, Big(512)), SlotOffset(r[first].bytes)))

\* two "icon" slots with different offsets after a zero slot, and the
\* signature of the icon metadata has been read
C7_Witness ==
    /\ TableRead
    /\ calls = <<"from_exefs", "from_smdh">>
    /\ LET r == ReadsOf("from_exefs")
       IN  /\ SlotIsZero(r[1].bytes)
           /\ \E i, j \in 2..10 :
                 /\ i < j
                 /\ r[i].bytes = Slot(ICON, LE32(100), LE32(14016))
                 /\ r[j].bytes = Slot(ICON, U32Max, LE32(14016))
    /\ ReadsOf("from_smdh")[1].ok

\* C10 (as stated): only trailing zero padding is removed from a name, so the
\* icon entry from_exefs selects is the lowest-indexed slot whose 8 name bytes
\* are "icon" followed by zeros; a slot whose name has zero bytes before "icon"
\* is not selected.
C10_TrailingPaddingOnly ==
    TableRead
    => LET r == ReadsOf("from_exefs")
           E == r[1].at
           icons == {i \in 1..10 :
                        SubSeq(r[i].bytes, 1, 8) = <<105, 99, 111, 110, 0, 0, 0, 0>>}
       IN  /\ icons = {} => /\ result.kind = "N3DSParsingErrorExeFSIconFileNotFound"
                            /\ ~Called("from_smdh")
           /\ icons # {}
                => LET first == CHOOSE i \in icons : \A j \in icons : i <= j
                   IN  EntersAt("from_smdh",
                                Add(Add(E, Big(512)), SlotOffset(r[first].bytes)))

----------------------------------------------------------------------------
\* the permutation table of the icon tiles
MortonTable ==
    <<0, 1, 8, 9, 2, 3, 10, 11, 16, 17, 24, 25, 18, 19, 26, 27,
      4, 5, 12, 13, 6, 7, 14, 15, 20, 21, 28, 29, 22, 23, 30, 31,
      32, 33, 40, 41, 34, 35, 42, 43, 48, 49, 56, 57, 50, 51, 58, 59,
      36, 37, 44, 45, 38, 39, 46, 47, 52, 53, 60, 61, 54, 55, 62, 63>>

\* the sample at storage index idx is in its pixel, written once, alpha 255
SampleInPlace(idx) ==
    LET k == idx % 64
        tile_x == (idx \div 64) % 6
        tile_y == idx \div (64 * 6)
        c == <<(MortonTable[k + 1] % 8) + tile_x * 8,
               (MortonTable[k + 1] \div 8) + tile_y * 8>>
        color == large_icon_bytes[2 * idx] + 256 * large_icon_bytes[2 * idx + 1]
    IN  /\ c \in (0..47) \X (0..47)
        /\ pixbuf[c] = [rgb |-> Rgb565_try_from(color), a |-> 255, writes |-> 1]

\* C8: generate_pixbuf_from_bytes writes the sample at storage index
\* (tile_y * 6 + tile_x) * 64 + k to pixel (table[k] & 7 + tile_x * 8,
\* table[k] >> 3 + tile_y * 8) with alpha 255; no coordinate is outside 0..47,
\* and when it returns every one of the 48 x 48 pixels has been written
\* exactly once, each by its own sample.
C8_PixelBijection ==
    /\ pix_pc # "panic"
    /\ pix_pc = "loop" => \A idx \in 0..(loop.pos - 1) : SampleInPlace(idx)
    /\ pix_pc \in {"return", "done"}
         => /\ loop.pos = 48 * 48
            /\ \A idx \in 0..(48 * 48 - 1) : SampleInPlace(idx)
            /\ \A c \in (0..47) \X (0..47) : pixbuf[c].writes = 1

\* the decoder has returned; sample 2 of the first tile is in pixel (0, 1) and
\* the last sample of the last tile in pixel (47, 47)
C8_Witness ==
    /\ pix_pc = "done"
    /\ large_icon_bytes[4] = 2
    /\ pixbuf[<<0, 1>>].rgb = [r |-> 0, g |-> 0, b |-> 2]
    /\ pixbuf[<<47, 47>>].rgb = Rgb565_try_from(2303)

====
